---------------------------- MODULE Spec2Model ----------------------------
(***************************************************************************)
(* A model of the Skillet composition layer:                               *)
(*   - services/runtime/multi_skill_host.py : the multi-skill host (the    *)
(*     registry self.skills, the application's route table, /reload,       *)
(*     /rediscover, /catalog and the read-only listings);                  *)
(*   - services/discovery/main.py : the discovery service (one aggregation *)
(*     pass fans out one fetch per configured URL and publishes a catalog).*)
(* Every host handler is an `async def` without an await between its first *)
(* and last statement, except get_catalog; the event loop runs one handler *)
(* at a time, so a handler is one atomic action.                           *)
(***************************************************************************)
EXTENDS Integers, Sequences, FiniteSets, TLC

(***************************************************************************)
(* Bounds of the model.                                                    *)
(***************************************************************************)
\* longest skills list of a configuration file
MaxDesc == 2
\* the route table only grows (app.mount is never undone): operations are
\* taken while the table holds at most this many Mount routes
MaxRoutes == 3
\* longest URL list of the discovery service
MaxUrls == 2
\* aggregation passes started in one run of the discovery service
MaxPasses == 2
\* URLs of the configuration when passes overlap
MaxServiceUrls == 1
\* entries of the catalog a search runs on
MaxCatalog == 1

(***************************************************************************)
(* The host's inputs: the skill directories and the configuration file.    *)
(***************************************************************************)
\* directories under examples/ ; "time" holds a working skill, "memory" is
\* in any of the states of SourceKinds
Sources == {"time", "memory"}

\* mount names; auto-discovery mounts a directory under its own name
Mounts == {"time", "memory"}

\* what load_skill finds at a descriptor's path:
\*   "ok"      skillet_runtime.py exists, imports, and has an `app`
\*   "missing" no skillet_runtime.py                     (lines 159-161)
\*   "raises"  the module raises while it is imported    (lines 205-208)
\*   "noapp"   the module has no `app` attribute         (lines 197-198)
SourceKinds == {"ok", "missing", "raises", "noapp"}

\* the file system as one load pass finds it
SourceStates ==
    {[time |-> "ok", memory |-> k] : k \in SourceKinds}

\* an item of the `skills` list of the config; isdict = FALSE is an item
\* that is not a mapping (skill_config.get raises AttributeError)
Descriptors ==
    {[name |-> s, path |-> s, mount |-> m, enabled |-> e, isdict |-> TRUE] :
        s \in Sources, m \in Mounts, e \in BOOLEAN}

BadItem ==
    [name |-> "memory", path |-> "memory", mount |-> "memory",
     enabled |-> TRUE, isdict |-> FALSE]

Items == Descriptors \cup {BadItem}

SeqsUpTo(S, n) == UNION {[1..k -> S] : k \in 0..n}

\* contents of the configuration file: absent, present but unreadable or
\* not parseable, or a parsed skills list
AbsentFile == [kind |-> "absent", skills |-> <<>>]

MalformedFile == [kind |-> "malformed", skills |-> <<>>]

\* a descriptor's name identifies it: no two mappings of a list share one
UniqueNames(s) ==
    \A i, j \in 1..Len(s) :
        (i # j /\ s[i].isdict /\ s[j].isdict) => s[i].name # s[j].name

\* the loop over the list stops at the first item that is not a mapping, so
\* what would follow it is never read: such an item ends the list
BadItemLast(s) == \A i \in 1..(Len(s) - 1) : s[i].isdict

ValidFiles ==
    {[kind |-> "ok", skills |-> s] :
        s \in {t \in SeqsUpTo(Items, MaxDesc) : UniqueNames(t) /\ BadItemLast(t)}}

ConfigFiles == {AbsentFile, MalformedFile} \cup ValidFiles

VARIABLES
    phase,      \* "new" before MultiSkillHost() ran, "serving", "crashed"
    config,     \* content of config_path
    skills,     \* self.skills: an insertion-ordered dict keyed by mount path
    routes,     \* the Mount routes of self.app, in the order they were added
    loadLog,    \* what the last load pass printed, one line per list item
    resp,       \* the response of the last handler that ran
    catalog_call,   \* the locals of a GET /catalog suspended in an await
    fileOps,    \* the files the handler called last wrote, in order
    sys_path,   \* sys.path of the host's process
    urls,       \* discovery: the configured URL list
    skill_catalog,  \* discovery: the published catalog (the global)
    passes,     \* discovery: the update_skill_catalog calls in flight
    started,    \* discovery: how many passes were started so far
    answer,     \* discovery: the response of the last handler that answered
    environ,    \* skill runtime: os.environ of the runtime's process
    base_env,   \* skill runtime: os.environ as it was when the process started
    runs,       \* skill runtime: the /run requests, each with its locals
    entities,   \* memory skill: graph.entities, a dict keyed by entity name
    relations,  \* memory skill: graph.relations, a list
    memory_file,    \* memory skill: the content of MEMORY_FILE_PATH
    graph_result    \* memory skill: what the last graph operation answered

hostVars == <<phase, config, skills, routes, loadLog, resp, catalog_call, fileOps, sys_path>>

discVars == <<urls, skill_catalog, passes, started, answer>>

credVars == <<environ, base_env, runs>>

graphVars == <<entities, relations, memory_file, graph_result>>

vars ==
    <<phase, config, skills, routes, loadLog, resp, catalog_call, fileOps, sys_path,
      urls, skill_catalog, passes, started, answer, environ, base_env, runs,
      entities, relations, memory_file, graph_result>>

(***************************************************************************)
(* A skill runtime (examples/*/skillet_runtime.py) and its POST /run. The  *)
(* process has one os.environ; a variable that is not set maps to Unset    *)
(* (os.environ.get gives None). A request's credentials dict maps the      *)
(* names it carries to their values and the others to Unset; a request in  *)
(* the legacy format, or with no credentials, carries none.                *)
(***************************************************************************)
\* sys.path of a process started with no skill directory in it
BasePath == <<"site-packages">>

EnvNames == {"API_KEY", "API_URL"}

Unset == "unset"

Injected == {"a", "b"}

Environs == [EnvNames -> {Unset, "base"}]

Credentials == [EnvNames -> Injected \cup {Unset}]

NoCredentials == [k \in EnvNames |-> Unset]

Requests == {"r1", "r2"}

NotRead == [k \in EnvNames |-> "not_read"]

\* a request that has not arrived
NoRun ==
    [stage |-> "none", credentials |-> NoCredentials,
     original_values |-> NoCredentials, seen |-> NotRead, status |-> 0]

CredIdle ==
    /\ environ = [k \in EnvNames |-> Unset]
    /\ base_env = environ
    /\ runs = [r \in Requests |-> NoRun]

(***************************************************************************)
(* The memory skill (examples/anthropic_memory/anthropic_memory.py): one   *)
(* KnowledgeGraph per process, kept in memory and dumped to one JSON file. *)
(* A dict is a function on the set of its keys. An observation list is     *)
(* built with list(set(...)) wherever it is stored, so it holds distinct   *)
(* items in no particular order: it is the set of its items.               *)
(***************************************************************************)
\* self.entities = {} (line 23)
NoEntities == [n \in {} |-> [entityType |-> "unknown", observations |-> {}]]

\* what is at filepath: nothing, a dump of a graph, or a dump cut short
NoFile == [state |-> "absent", entities |-> NoEntities, relations |-> <<>>]

TruncatedFile == [state |-> "truncated", entities |-> NoEntities, relations |-> <<>>]

\* json.dump({"entities": ..., "relations": ...}) (line 46)
Dump(ents, rels) == [state |-> "written", entities |-> ents, relations |-> rels]

\* lines 27-40: no file, or a file that does not parse, gives the empty graph
Load(file) ==
    IF file.state = "written"
    THEN [entities |-> file.entities, relations |-> file.relations]
    ELSE [entities |-> NoEntities, relations |-> <<>>]

\* no operation was called yet
NoResult ==
    [op |-> "none", entities |-> <<>>, status |-> 0, count |-> 0, wrote |-> "none",
     nodes |-> <<>>]

GraphIdle ==
    /\ memory_file = NoFile
    /\ entities = Load(memory_file).entities
    /\ relations = Load(memory_file).relations
    /\ graph_result = NoResult

(***************************************************************************)
(* Python's dict, as far as the host uses it: insertion-ordered, a store   *)
(* to an existing key keeps the key's place and replaces its value.        *)
(***************************************************************************)
Range(s) == {s[i] : i \in 1..Len(s)}

DictKeys(d) == [i \in 1..Len(d) |-> d[i].mount_path]

DictHas(d, k) == \E i \in 1..Len(d) : d[i].mount_path = k

DictGet(d, k) == d[CHOOSE i \in 1..Len(d) : d[i].mount_path = k]

DictSet(d, v) ==
    IF DictHas(d, v.mount_path)
    THEN [i \in 1..Len(d) |-> IF d[i].mount_path = v.mount_path THEN v ELSE d[i]]
    ELSE Append(d, v)


(***************************************************************************)
(* The environment of one handler run: the skill directories, the example  *)
(* configuration beside config_path, and whether file I/O succeeds.        *)
(***************************************************************************)
ExampleFile ==
    [kind |-> "ok",
     skills |-> <<[name |-> "time", path |-> "time", mount |-> "time",
                   enabled |-> TRUE, isdict |-> TRUE]>>]

Envs ==
    [fs : SourceStates, example : {AbsentFile, ExampleFile},
     io : {"ok", "write_fails", "read_fails"}]

\* the directories a load pass over `file` looks into
PathsRead(file) ==
    {file.skills[i].path : i \in {j \in 1..Len(file.skills) :
                                    file.skills[j].isdict /\ file.skills[j].enabled}}

\* the environments that differ in something a load of `file` reads: the
\* example file and a failing write matter only when config_path is absent,
\* a directory's state only when the pass looks into it
EnvsFor(file) ==
    IF file.kind = "absent"
    THEN {e \in Envs : e.io # "read_fails"}
    ELSE {e \in Envs : /\ e.example = AbsentFile
                       /\ e.io = "ok"
                       /\ \A s \in Sources \ PathsRead(file) : e.fs[s] = "ok"}

(***************************************************************************)
(* load_skill: mounts the skill's app under /skills/{mount} and records it *)
(* in self.skills, or prints the failure and returns. st is the host state *)
(* the pass threads through: [skills, routes, log]. An app object is       *)
(* identified by the number of the Mount route it was first given.         *)
(***************************************************************************)
LogLine(d, result) == [name |-> d.name, mount |-> d.mount, result |-> result]

\* list.remove: the list without the first occurrence of x
RECURSIVE ListRemove(_, _)
ListRemove(l, x) ==
    IF l = <<>> THEN <<>>
    ELSE IF Head(l) = x THEN Tail(l)
    ELSE <<Head(l)>> \o ListRemove(Tail(l), x)

\* lines 164-166 and 198-201: the skill's directory is put first in
\* sys.path unless it is in it, and after the import, however that ended,
\* taken out of it if it is in it
PathAfterImport(path, skill_dir) ==
    LET inserted == IF skill_dir \in {path[i] : i \in 1..Len(path)}
                    THEN path ELSE <<skill_dir>> \o path
    IN  ListRemove(inserted, skill_dir)

load_skill(st, d, fs) ==
    IF fs[d.path] = "ok"
    THEN LET app == Len(st.routes) + 1
         IN  [skills |-> DictSet(st.skills,
                            [name |-> d.name, path |-> d.path,
                             mount_path |-> d.mount, app |-> app]),
              routes |-> Append(st.routes, [path |-> d.mount, app |-> app]),
              log |-> Append(st.log, LogLine(d, "mounted")),
              sys_path |-> PathAfterImport(st.sys_path, d.path)]
    ELSE IF fs[d.path] = "missing"
    THEN \* lines 159-161 return before sys.path is touched
         [st EXCEPT !.log = Append(@, LogLine(d, fs[d.path]))]
    ELSE [st EXCEPT !.log = Append(@, LogLine(d, fs[d.path])),
                    !.sys_path = PathAfterImport(@, d.path)]

(***************************************************************************)
(* create_default_config: one enabled descriptor per directory of          *)
(* examples/ that holds a skillet_runtime.py, sorted by name.              *)
(***************************************************************************)
\* the place of a name in alphabetical order
NameRank(s) == IF s = "memory" THEN 1 ELSE 2

RECURSIVE SortByName(_)
SortByName(S) ==
    IF S = {} THEN <<>>
    ELSE LET first == CHOOSE d \in S : \A e \in S : NameRank(d.name) <= NameRank(e.name)
         IN  <<first>> \o SortByName(S \ {first})

create_default_config_unsorted(fs) ==
    \* without the sort of line 128, in an order iterdir() may yield
    [kind |-> "ok",
     skills |-> LET sorted == SortByName(
                      {[name |-> s, path |-> s, mount |-> s,
                        enabled |-> TRUE, isdict |-> TRUE] :
                          s \in {x \in Sources : fs[x] # "missing"}})
                IN  [i \in 1..Len(sorted) |-> sorted[Len(sorted) + 1 - i]]]

create_default_config(fs) ==
    [kind |-> "ok",
     skills |-> SortByName(
        {[name |-> s, path |-> s, mount |-> s, enabled |-> TRUE, isdict |-> TRUE] :
            s \in {x \in Sources : fs[x] # "missing"}})]

(***************************************************************************)
(* load_skills_from_config. The result says whether the call raised, what  *)
(* config_path holds afterwards, and the host state the call left behind.  *)
(***************************************************************************)
RECURSIVE LoadItems(_, _, _, _)
LoadItems(st, items, i, fs) ==
    IF i > Len(items) THEN [raised |-> FALSE, st |-> st]
    ELSE IF ~items[i].isdict THEN [raised |-> TRUE, st |-> st]
    ELSE IF items[i].enabled
         THEN LoadItems(load_skill(st, items[i], fs), items, i + 1, fs)
         ELSE LoadItems([st EXCEPT !.log = Append(@, LogLine(items[i], "skipped"))],
                        items, i + 1, fs)

load_skills_from_config(st, file, env) ==
    LET \* lines 73-85: config_path absent
        wrote == IF file.kind # "absent" THEN file
                 ELSE IF env.example.kind # "absent" THEN env.example
                 ELSE create_default_config(env.fs)
    IN  IF file.kind = "absent" /\ env.io = "write_fails"
        THEN [raised |-> TRUE, config |-> file, st |-> st]
        ELSE IF wrote.kind = "malformed" \/ env.io = "read_fails"
        THEN [raised |-> TRUE, config |-> wrote, st |-> st]
        ELSE LET r == LoadItems(st, wrote.skills, 1, env.fs)
             IN  [raised |-> r.raised, config |-> wrote, st |-> r.st]

(***************************************************************************)
(* Responses. One record shape for every handler; a field a handler does   *)
(* not send is empty.                                                      *)
(***************************************************************************)
\* load_errors is where a response would name the descriptors that failed
\* to load; no handler of the host puts anything there
NoResp ==
    [op |-> "none", status |-> 0, old_skills |-> <<>>, new_skills |-> <<>>,
     total_loaded |-> 0, load_errors |-> <<>>, total_skills |-> 0,
     entries |-> <<>>]

ErrorResp(op) == [NoResp EXCEPT !.op = op, !.status = 500]

ReloadResp_old_after_clear(op, old, new) ==
    \* the body as it would be with old_skills read after self.skills.clear()
    [NoResp EXCEPT !.op = op, !.status = 200, !.old_skills = <<>>,
                   !.new_skills = DictKeys(new), !.total_loaded = Len(new)]

\* lines 319-324 and 352-365: the body of a successful reload or rediscover
ReloadResp(op, old, new) ==
    [NoResp EXCEPT !.op = op, !.status = 200, !.old_skills = DictKeys(old),
                   !.new_skills = DictKeys(new), !.total_loaded = Len(new)]

(***************************************************************************)
(* The router of the application. The fixed routes come first; then the    *)
(* Mount routes in the order app.mount added them. A request under         *)
(* /skills/{m}/ goes to the first Mount whose path matches, else 404.      *)
(***************************************************************************)
NotFound == 0

RouteRequest(m) ==
    IF \E i \in 1..Len(routes) : routes[i].path = m
    THEN routes[CHOOSE i \in 1..Len(routes) :
                    /\ routes[i].path = m
                    /\ \A j \in 1..(i - 1) : routes[j].path # m].app
    ELSE NotFound

\* the mount paths a request is routed under
Routable == {m \in Mounts : RouteRequest(m) # NotFound}

(***************************************************************************)
(* The read-only listings: GET /health, GET /skills and GET / answer from  *)
(* self.skills as it stands.                                               *)
(***************************************************************************)
health_check ==
    [status |-> "healthy", loaded_skills |-> Len(skills), skills |-> DictKeys(skills)]

get_skills ==
    [total_skills |-> Len(skills),
     skills |-> [i \in 1..Len(skills) |->
                    [name |-> skills[i].name, mount_path |-> skills[i].mount_path]]]

root ==
    [loaded_skills |-> Len(skills), skills |-> DictKeys(skills)]

(***************************************************************************)
(* MultiSkillHost.__init__ (lines 46-69): an empty registry, the fixed     *)
(* routes, then load_skills_from_config; an exception leaves no host.      *)
(***************************************************************************)
EmptyHost == [skills |-> <<>>, routes |-> <<>>, log |-> <<>>, sys_path |-> sys_path]

\* one write of a file: which file, what was copied or dumped into it
\* ("example", "config", or "examples_dir" for a discovered list), and what
\* the file holds afterwards
FileOp(file, from, content) == [file |-> file, from |-> from, content |-> content]

\* lines 73-85: a load that finds config_path absent writes it, copying the
\* example or dumping the discovered list; a load that finds it writes nothing
ConfigWrite(found, left, env) ==
    IF found.kind = "absent" /\ left.kind # "absent"
    THEN <<FileOp("config",
                  IF env.example.kind # "absent" THEN "example" ELSE "examples_dir",
                  left)>>
    ELSE <<>>

Startup_serves_anyway ==
    \* the constructor as it would be if the load's exception were swallowed
    /\ phase = "new"
    /\ \E env \in EnvsFor(config) :
         LET r == load_skills_from_config(EmptyHost, config, env)
         IN  /\ phase' = "serving"
             /\ config' = r.config
             /\ skills' = r.st.skills
             /\ routes' = r.st.routes
             /\ loadLog' = r.st.log
             /\ sys_path' = r.st.sys_path
             /\ resp' = NoResp
             /\ fileOps' = ConfigWrite(config, r.config, env)
    /\ UNCHANGED catalog_call
    /\ UNCHANGED <<discVars, credVars, graphVars>>

Startup ==
    /\ phase = "new"
    /\ \E env \in EnvsFor(config) :
         LET r == load_skills_from_config(EmptyHost, config, env)
         IN  /\ phase' = IF r.raised THEN "crashed" ELSE "serving"
             /\ config' = r.config
             /\ skills' = r.st.skills
             /\ routes' = r.st.routes
             /\ loadLog' = r.st.log
             /\ sys_path' = r.st.sys_path
             /\ resp' = NoResp
             /\ fileOps' = ConfigWrite(config, r.config, env)
    /\ UNCHANGED catalog_call
    /\ UNCHANGED <<discVars, credVars, graphVars>>

(***************************************************************************)
(* POST /reload (lines 308-329). `file` is config_path as the handler      *)
(* finds it: the operator may have edited it since the last load.          *)
(***************************************************************************)
reload_skills_clear_last(file, env) ==
    \* the handler as it would be with self.skills.clear() after the load
    LET old == skills
        r == load_skills_from_config(
                [skills |-> <<>>, routes |-> routes, log |-> <<>>,
                 sys_path |-> sys_path], file, env)
    IN  /\ Len(r.st.routes) <= MaxRoutes
        /\ config' = r.config
        /\ skills' = <<>>
        /\ routes' = r.st.routes
        /\ loadLog' = r.st.log
        /\ sys_path' = r.st.sys_path
        /\ resp' = IF r.raised THEN ErrorResp("reload")
                   ELSE ReloadResp("reload", old, r.st.skills)
        /\ fileOps' = ConfigWrite(file, r.config, env)

reload_skills(file, env) ==
    LET old == skills
        r == load_skills_from_config(
                [skills |-> <<>>, routes |-> routes, log |-> <<>>,
                 sys_path |-> sys_path], file, env)
    IN  /\ Len(r.st.routes) <= MaxRoutes
        /\ config' = r.config
        /\ skills' = r.st.skills
        /\ routes' = r.st.routes
        /\ loadLog' = r.st.log
        /\ sys_path' = r.st.sys_path
        /\ resp' = IF r.raised THEN ErrorResp("reload")
                   ELSE ReloadResp("reload", old, r.st.skills)
        /\ fileOps' = ConfigWrite(file, r.config, env)

Reload ==
    /\ phase = "serving"
    /\ \E file \in ConfigFiles : \E env \in EnvsFor(file) : reload_skills(file, env)
    /\ UNCHANGED <<phase, catalog_call>>
    /\ UNCHANGED <<discVars, credVars, graphVars>>

(***************************************************************************)
(* POST /rediscover (lines 331-371): copy the config to config_path +      *)
(* ".backup" when it exists, write a freshly discovered one, clear the     *)
(* registry, load. env.io says which file operation, if any, raises.       *)
(***************************************************************************)
RediscoverEnvs ==
    [fs : SourceStates, example : {AbsentFile},
     io : {"ok", "copy_fails", "write_fails", "read_fails"}]

rediscover_skills_backup_after_write(env) ==
    \* the handler as it would be with the copy after create_default_config()
    LET fresh == create_default_config(env.fs)
        copy == IF config.kind # "absent" THEN <<FileOp("backup", "config", fresh)>> ELSE <<>>
    IN  IF env.io = "write_fails"
        THEN /\ resp' = ErrorResp("rediscover")
             /\ fileOps' = <<>>
             /\ UNCHANGED <<config, skills, routes, loadLog, sys_path>>
        ELSE IF config.kind # "absent" /\ env.io = "copy_fails"
        THEN /\ resp' = ErrorResp("rediscover")
             /\ fileOps' = <<FileOp("config", "examples_dir", fresh)>>
             /\ config' = fresh
             /\ UNCHANGED <<skills, routes, loadLog, sys_path>>
        ELSE LET old == skills
                 r == load_skills_from_config(
                        [skills |-> <<>>, routes |-> routes, log |-> <<>>,
                 sys_path |-> sys_path], fresh, env)
             IN  /\ Len(r.st.routes) <= MaxRoutes
                 /\ fileOps' = <<FileOp("config", "examples_dir", fresh)>> \o copy
                 /\ config' = r.config
                 /\ skills' = r.st.skills
                 /\ routes' = r.st.routes
                 /\ loadLog' = r.st.log
                 /\ sys_path' = r.st.sys_path
                 /\ resp' = IF r.raised THEN ErrorResp("rediscover")
                            ELSE ReloadResp("rediscover", old, r.st.skills)

rediscover_skills(env) ==
    LET fresh == create_default_config(env.fs)
        \* lines 337-341: shutil.copy2(config_path, backup_path)
        copy == IF config.kind # "absent" THEN <<FileOp("backup", "config", config)>> ELSE <<>>
    IN  IF config.kind # "absent" /\ env.io = "copy_fails"
        THEN \* the copy raised: nothing was touched
             /\ resp' = ErrorResp("rediscover")
             /\ fileOps' = <<>>
             /\ UNCHANGED <<config, skills, routes, loadLog, sys_path>>
        ELSE IF env.io = "write_fails"
        THEN \* line 139 raised: the backup is there, the config is as it was
             /\ resp' = ErrorResp("rediscover")
             /\ fileOps' = copy
             /\ UNCHANGED <<config, skills, routes, loadLog, sys_path>>
        ELSE LET old == skills
                 r == load_skills_from_config(
                        [skills |-> <<>>, routes |-> routes, log |-> <<>>,
                 sys_path |-> sys_path], fresh, env)
             IN  /\ Len(r.st.routes) <= MaxRoutes
                 /\ fileOps' = copy \o <<FileOp("config", "examples_dir", fresh)>>
                 /\ config' = r.config
                 /\ skills' = r.st.skills
                 /\ routes' = r.st.routes
                 /\ loadLog' = r.st.log
                 /\ sys_path' = r.st.sys_path
                 /\ resp' = IF r.raised THEN ErrorResp("rediscover")
                            ELSE ReloadResp("rediscover", old, r.st.skills)

Rediscover ==
    /\ phase = "serving"
    /\ \E env \in RediscoverEnvs : rediscover_skills(env)
    /\ UNCHANGED <<phase, catalog_call>>
    /\ UNCHANGED <<discVars, credVars, graphVars>>

(***************************************************************************)
(* GET /catalog (lines 248-287) with get_skill_inventory (lines 373-401).  *)
(* What a skill's module answers when asked for its inventory is the       *)
(* module's business; the handler sees one of:                             *)
(*   "fallback"       the module has neither get_inventory nor inventory   *)
(*   "with_skill"     it returns a dict whose 'skill' is a dict            *)
(*   "no_skill"       it returns a non-empty object without 'skill'        *)
(*   "empty"          it returns None or an empty dict                     *)
(*   "raises"         it raises: get_skill_inventory returns None          *)
(*   "skill_not_dict" it returns {'skill': x}, x not a dict: line 268      *)
(*                    raises and the except branch adds a placeholder      *)
(***************************************************************************)
\* no GET /catalog is suspended; `asked` holds the app of each module the
\* loop asked, `old` and `new` the apps of the registry when the loop
\* began and when it ended
NoCall ==
    [stage |-> "none", status |-> 0, pos |-> 0, size |-> 0, skill_name |-> "none",
     entries |-> <<>>, asked |-> <<>>, old |-> {}, new |-> {}]

InventoryOutcomes ==
    {"fallback", "with_skill", "no_skill", "empty", "raises", "skill_not_dict"}

\* lines 263-285: the entries one skill adds to catalog["skills"]; the
\* status of an inventory is the one the module gave it
CatalogEntriesOf(skill_name, outcome) ==
    IF outcome = "fallback"
    THEN <<[skill |-> skill_name, status |-> "loaded"]>>
    ELSE IF outcome = "with_skill"
    THEN <<[skill |-> skill_name, status |-> "as_given"]>>
    ELSE IF outcome = "skill_not_dict"
    THEN <<[skill |-> skill_name, status |-> "loaded_but_no_inventory"]>>
    ELSE <<>>

RECURSIVE CatalogEntries(_, _, _)
CatalogEntries(sk, outcomes, i) ==
    IF i > Len(sk) THEN <<>>
    ELSE CatalogEntriesOf(sk[i].mount_path, outcomes[i])
            \o CatalogEntries(sk, outcomes, i + 1)

get_catalog(outcomes) ==
    [NoResp EXCEPT !.op = "catalog", !.status = 200,
                   !.total_skills = Len(skills),
                   !.entries = CatalogEntries(skills, outcomes, 1)]

GetCatalog ==
    /\ phase = "serving"
    /\ \E outcomes \in [1..Len(skills) -> InventoryOutcomes] :
         resp' = get_catalog(outcomes)
    /\ fileOps' = <<>>
    /\ UNCHANGED <<phase, config, skills, routes, loadLog, catalog_call, sys_path>>
    /\ UNCHANGED <<discVars, credVars, graphVars>>

(***************************************************************************)
(* GET /catalog when a module's get_inventory suspends (line 387 awaits    *)
(* it): the handler stops inside the loop of line 262 and other handlers   *)
(* run before it goes on. The loop's iterator over self.skills.items()     *)
(* keeps its position and the size the dict had when the loop began; its   *)
(* next step raises RuntimeError when the size differs, ends when the      *)
(* position is past the dict's entries, and yields the entry at the        *)
(* position otherwise. The for statement is outside the try of line 263:   *)
(* the RuntimeError leaves the handler and the request gets a 500.         *)
(***************************************************************************)
Apps(sk) == {sk[i].app : i \in 1..Len(sk)}

CatalogBegin ==
    /\ phase = "serving"
    /\ catalog_call.stage = "none"
    /\ IF skills = <<>>
       THEN /\ catalog_call' =
                [NoCall EXCEPT !.stage = "answered", !.status = 200]
            /\ resp' = get_catalog(<<>>)
       ELSE /\ catalog_call' =
                [NoCall EXCEPT !.stage = "suspended", !.pos = 1,
                               !.size = Len(skills), !.skill_name = skills[1].mount_path,
                               !.asked = <<skills[1].app>>,
                               !.old = Apps(skills)]
            /\ resp' = resp
    /\ fileOps' = <<>>
    /\ UNCHANGED <<phase, config, skills, routes, loadLog, sys_path>>
    /\ UNCHANGED <<discVars, credVars, graphVars>>

CatalogResume ==
    /\ phase = "serving"
    /\ catalog_call.stage = "suspended"
    /\ \E outcome \in InventoryOutcomes :
        LET entries == catalog_call.entries
                        \o CatalogEntriesOf(catalog_call.skill_name, outcome)
        IN  IF Len(skills) # catalog_call.size
            THEN \* dictionary changed size during iteration
                 /\ catalog_call' =
                        [catalog_call EXCEPT !.stage = "answered", !.status = 500,
                                             !.entries = entries,
                                             !.new = Apps(skills)]
                 /\ resp' = [NoResp EXCEPT !.op = "catalog", !.status = 500]
            ELSE IF catalog_call.pos >= Len(skills)
            THEN /\ catalog_call' =
                        [catalog_call EXCEPT !.stage = "answered", !.status = 200,
                                             !.entries = entries,
                                             !.new = Apps(skills)]
                 /\ resp' = [NoResp EXCEPT !.op = "catalog", !.status = 200,
                                           !.total_skills = catalog_call.size,
                                           !.entries = entries]
            ELSE /\ catalog_call' =
                        [catalog_call EXCEPT
                            !.pos = @ + 1,
                            !.entries = entries,
                            !.skill_name = skills[catalog_call.pos + 1].mount_path,
                            !.asked = Append(@, skills[catalog_call.pos + 1].app)]
                 /\ resp' = resp
    /\ UNCHANGED <<phase, config, skills, routes, loadLog, fileOps, sys_path>>
    /\ UNCHANGED <<discVars, credVars, graphVars>>

(***************************************************************************)
(* The discovery service (services/discovery/main.py).                     *)
(***************************************************************************)
\* base URLs a configuration can list
Urls == {"http://localhost:8001", "http://localhost:8002"}

UrlLists == SeqsUpTo(Urls, MaxUrls)

\* what the GET of {base_url}/inventory comes to (lines 51-68):
\*   "skill"    200, a JSON object with a 'skill' object
\*   "no_skill" 200, a non-empty JSON value without 'skill'
\*   "falsy"    200, an empty JSON value ({} , [], null)
\*   "timeout"  no answer within 5 s: httpx raises a timeout
\*   "refused"  the connection fails, the status is an error or the body is
\*              not what the code can read: some other exception
FetchOutcomes == {"skill", "no_skill", "falsy", "timeout", "refused"}

Unreachable == {"timeout", "refused"}

\* the module's global before the first pass: an empty dict (line 24)
EmptyCatalog ==
    [built |-> FALSE, total_skills |-> 0, available_skills |-> 0, skills |-> <<>>]

\* lines 75-84: new_catalog before the loop
NewCatalog == [EmptyCatalog EXCEPT !.built = TRUE]

\* fetch_skill_inventory: the handler's body, with base_url and endpoints
\* set when it has a 'skill'; None after any exception. `body` names the
\* handler whose answer the value holds.
fetch_skill_inventory(base_url, outcome) ==
    IF outcome = "skill"
    THEN [kind |-> "inventory", body |-> base_url, base_url |-> base_url,
          status |-> "none", error |-> "none"]
    ELSE IF outcome = "no_skill"
    THEN [kind |-> "raw", body |-> base_url, base_url |-> "none",
          status |-> "none", error |-> "none"]
    ELSE IF outcome = "falsy"
    THEN [kind |-> "falsy", body |-> base_url, base_url |-> "none",
          status |-> "none", error |-> "none"]
    ELSE [kind |-> "None", body |-> "none", base_url |-> "none",
          status |-> "none", error |-> "none"]

\* Python's truth value of a fetch result
Truthy(result) == result.kind \in {"inventory", "raw"}

\* lines 98-106: the placeholder of a skill that gave no usable answer
Placeholder(url) ==
    [kind |-> "placeholder", body |-> "none", base_url |-> url,
     status |-> "unavailable", error |-> "No response"]

\* lines 91-106: the loop over zip(skill_urls, results)
RECURSIVE BuildCatalog_skip_unusable(_, _, _, _)
BuildCatalog_skip_unusable(skill_urls, results, i, acc) ==
    \* the loop as it would be without its else branch
    IF i > Len(skill_urls) \/ i > Len(results) THEN acc
    ELSE BuildCatalog_skip_unusable(skill_urls, results, i + 1,
            IF Truthy(results[i])
            THEN [acc EXCEPT !.total_skills = @ + 1,
                             !.available_skills = @ + 1,
                             !.skills = Append(@, results[i])]
            ELSE [acc EXCEPT !.total_skills = @ + 1])

RECURSIVE BuildCatalog(_, _, _, _)
BuildCatalog(skill_urls, results, i, acc) ==
    IF i > Len(skill_urls) \/ i > Len(results) THEN acc
    ELSE BuildCatalog(skill_urls, results, i + 1,
            IF Truthy(results[i])
            THEN [acc EXCEPT !.total_skills = @ + 1,
                             !.available_skills = @ + 1,
                             !.skills = Append(@, results[i])]
            ELSE [acc EXCEPT !.total_skills = @ + 1,
                             !.skills = Append(@, Placeholder(skill_urls[i]))])

(***************************************************************************)
(* update_skill_catalog (lines 70-110), one call = one pass:               *)
(*   StartPass   lines 74-89: read the URL list, start one fetch per URL   *)
(*   FetchDone   one fetch of the gather ends, in any order                *)
(*   BuildPass   lines 89-106: gather returns its results in task order;   *)
(*               the loop builds new_catalog                               *)
(*   PublishPass line 108, after the client was closed: the global is set  *)
(***************************************************************************)
PassIds == 1..Len(passes)

\* a pass keeps its URL list, its tasks, their results and new_catalog in
\* locals: passes share nothing but the global they publish to. Here a pass
\* starts when no other is in flight.
\* lines 74-89: the locals of a call of update_skill_catalog up to its
\* await of the gather; caller is the handler that awaits the call
update_skill_catalog(id, caller) ==
    [id |-> id, caller |-> caller, skill_urls |-> urls, stage |-> "fetching",
     outcome |-> [i \in 1..Len(urls) |-> "pending"],
     done |-> <<>>,
     elapsed |-> 0,
     waited |-> [i \in 1..Len(urls) |-> 0],
     new_catalog |-> EmptyCatalog]

StartPass ==
    /\ started < MaxPasses
    /\ passes = <<>>
    /\ started' = started + 1
    /\ passes' = Append(passes, update_skill_catalog(started + 1, "none"))
    /\ UNCHANGED <<urls, skill_catalog, answer>>
    /\ UNCHANGED <<hostVars, credVars, graphVars>>

FetchDone ==
    /\ \E p \in PassIds : \E i \in 1..Len(passes[p].skill_urls) :
        \E o \in FetchOutcomes :
            /\ passes[p].stage = "fetching"
            /\ passes[p].outcome[i] = "pending"
            /\ passes' = [passes EXCEPT ![p].outcome[i] = o,
                                        ![p].done = Append(@, i)]
    /\ UNCHANGED <<urls, skill_catalog, started, answer>>
    /\ UNCHANGED <<hostVars, credVars, graphVars>>

gather_as_completed(pass) ==
    \* the results as they would come in the order the fetches ended
    [k \in 1..Len(pass.skill_urls) |->
        fetch_skill_inventory(pass.skill_urls[pass.done[k]],
                              pass.outcome[pass.done[k]])]

gather_fail_fast(pass) ==
    \* the results as they would be if one failed fetch cancelled the others
    [i \in 1..Len(pass.skill_urls) |->
        IF \E j \in 1..Len(pass.skill_urls) : pass.outcome[j] \in Unreachable
        THEN fetch_skill_inventory(pass.skill_urls[i], "timeout")
        ELSE fetch_skill_inventory(pass.skill_urls[i], pass.outcome[i])]

\* asyncio.gather: the results in the order of the awaitables
gather(pass) ==
    [i \in 1..Len(pass.skill_urls) |->
        fetch_skill_inventory(pass.skill_urls[i], pass.outcome[i])]

BuildPass ==
    /\ \E p \in PassIds :
        /\ passes[p].stage = "fetching"
        /\ \A i \in 1..Len(passes[p].skill_urls) : passes[p].outcome[i] # "pending"
        /\ passes' = [passes EXCEPT
                ![p].stage = "closing",
                ![p].new_catalog =
                    BuildCatalog(passes[p].skill_urls, gather(passes[p]), 1,
                                 NewCatalog)]
    /\ UNCHANGED <<urls, skill_catalog, started, answer>>
    /\ UNCHANGED <<hostVars, credVars, graphVars>>

\* the clients that send POST /refresh; a client waits for its response
\* before it sends again
Clients == {"c1", "c2"}

NoAnswer == [op |-> "none"]

refresh_catalog_counts_all(catalog) ==
    \* the response as it would be if it counted every entry as available
    [op |-> "refresh",
     available_skills |-> catalog.total_skills,
     total_skills |-> catalog.total_skills]

\* lines 204-209: the response of POST /refresh, read from the global the
\* awaited pass has just set (nothing is awaited between lines 108 and 204)
refresh_catalog(catalog) ==
    [op |-> "refresh",
     available_skills |-> catalog.available_skills,
     total_skills |-> catalog.total_skills]

\* the handlers that read the published catalog and start a pass of their
\* own when they find none (lines 120, 128, 149)
ReadHandlers == {"get_skill_catalog", "get_available_skills", "search_skills"}

\* lines 123, 136-139, 189-198: what a read answers from the catalog (a
\* search without arguments returns the available entries)
ReadAnswer_unfiltered(h, catalog) ==
    \* the reads as they would be without the filter of lines 130-133, 152-155
    [op |-> h,
     results |-> Len(catalog.skills),
     skills |-> catalog.skills]

ReadAnswer(h, catalog) ==
    LET listed == IF h = "get_skill_catalog"
                  THEN catalog.skills
                  ELSE SelectSeq(catalog.skills, LAMBDA e : e.status # "unavailable")
    IN  [op |-> h,
         results |-> Len(listed),
         skills |-> listed]

RemoveAt(s, p) == [i \in 1..(Len(s) - 1) |-> IF i < p THEN s[i] ELSE s[i + 1]]

PublishPass ==
    /\ \E p \in PassIds :
        /\ passes[p].stage = "closing"
        /\ skill_catalog' = passes[p].new_catalog
        /\ passes' = RemoveAt(passes, p)
        /\ answer' = IF passes[p].caller \in Clients
                      THEN refresh_catalog(passes[p].new_catalog)
                      ELSE IF passes[p].caller \in ReadHandlers
                      THEN ReadAnswer(passes[p].caller, passes[p].new_catalog)
                      ELSE answer
    /\ UNCHANGED <<urls, started>>
    /\ UNCHANGED <<hostVars, credVars, graphVars>>

HostIdle ==
    /\ phase = "new"
    /\ config = AbsentFile
    /\ skills = <<>>
    /\ routes = <<>>
    /\ loadLog = <<>>
    /\ resp = NoResp
    /\ catalog_call = NoCall
    /\ fileOps = <<>>
    /\ sys_path = BasePath

InitDiscovery ==
    /\ urls \in UrlLists
    /\ skill_catalog = EmptyCatalog
    /\ passes = <<>>
    /\ started = 0
    /\ answer = NoAnswer
    /\ HostIdle
    /\ CredIdle
    /\ GraphIdle

NextDiscovery ==
    \/ StartPass
    \/ FetchDone
    \/ BuildPass
    \/ PublishPass

SpecDiscovery == InitDiscovery /\ [][NextDiscovery]_vars

(***************************************************************************)
(* The startup pass with its waits timed, in seconds. Line 88 creates one  *)
(* coroutine per URL and the gather of line 89 runs them all from the same *)
(* instant. A handler answers, fails or stays silent; client.get gives a   *)
(* silent handler `timeout` seconds (line 52) and then raises. The event   *)
(* loop resumes a coroutine as soon as its wait ends: time does not pass   *)
(* while a fetch is at its timeout.                                        *)
(***************************************************************************)
Timeout == 5

Pending(pass) ==
    {i \in 1..Len(pass.skill_urls) : pass.outcome[i] = "pending"}

Running_one_at_a_time(pass) ==
    \* the fetches as they would run if each were awaited in turn
    {i \in Pending(pass) : \A j \in Pending(pass) : i <= j}

\* the fetches whose wait is under way: all that have not ended
Running(pass) == Pending(pass)

TimedStart ==
    /\ started = 0
    /\ started' = 1
    /\ passes' = Append(passes, update_skill_catalog(1, "startup_event"))
    /\ UNCHANGED <<urls, skill_catalog, answer>>
    /\ UNCHANGED <<hostVars, credVars, graphVars>>

\* one second passes for every pass that waits in its gather
Tick ==
    /\ passes # <<>>
    /\ \A p \in PassIds :
        /\ passes[p].stage = "fetching"
        /\ Pending(passes[p]) # {}
        /\ \A i \in Running(passes[p]) : passes[p].waited[i] < Timeout
    /\ passes' = [p \in PassIds |->
            [passes[p] EXCEPT
                !.elapsed = @ + 1,
                !.waited = [i \in 1..Len(passes[p].skill_urls) |->
                    IF i \in Running(passes[p])
                    THEN passes[p].waited[i] + 1 ELSE passes[p].waited[i]]]]
    /\ UNCHANGED <<urls, skill_catalog, started, answer>>
    /\ UNCHANGED <<hostVars, credVars, graphVars>>

\* a running fetch ends: with an answer or a failure at any time up to the
\* timeout, with the timeout when the handler was silent that long
TimedFetchDone ==
    /\ \E p \in PassIds : \E i \in Running(passes[p]) :
        \E o \in FetchOutcomes :
            /\ passes[p].stage = "fetching"
            /\ o = "timeout" => passes[p].waited[i] = Timeout
            /\ passes' = [passes EXCEPT ![p].outcome[i] = o]
    /\ UNCHANGED <<urls, skill_catalog, started, answer>>
    /\ UNCHANGED <<hostVars, credVars, graphVars>>

NextTimed ==
    \/ TimedStart
    \/ Tick
    \/ TimedFetchDone
    \/ BuildPass
    \/ PublishPass

\* timers fire and the event loop runs every coroutine that is ready
SpecTimed ==
    /\ InitDiscovery
    /\ [][NextTimed]_vars
    /\ WF_vars(Tick)
    /\ WF_vars(TimedFetchDone)
    /\ WF_vars(BuildPass)
    /\ WF_vars(PublishPass)

(***************************************************************************)
(* The discovery service with its requests. The startup pass (lines        *)
(* 112-115) ends before the service takes requests; POST /refresh starts a *)
(* pass whatever other passes are in flight. The read handlers have no     *)
(* await once a catalog is published, so a read is a function of the state *)
(* it arrives in.                                                          *)
(***************************************************************************)
startup_event ==
    /\ started = 0
    /\ started' = 1
    /\ passes' = Append(passes, update_skill_catalog(1, "startup_event"))
    /\ UNCHANGED <<urls, skill_catalog, answer>>
    /\ UNCHANGED <<hostVars, credVars, graphVars>>

Serving ==
    /\ started >= 1
    /\ \A p \in PassIds : passes[p].caller # "startup_event"

Refresh_build_in_place ==
    \* the pass as it would be if it built its catalog in the global
    /\ Serving
    /\ started <= MaxPasses
    /\ \E c \in Clients :
        /\ \A p \in PassIds : passes[p].caller # c
        /\ passes' = Append(passes, update_skill_catalog(started + 1, c))
    /\ started' = started + 1
    /\ skill_catalog' = NewCatalog
    /\ UNCHANGED <<urls, answer>>
    /\ UNCHANGED <<hostVars, credVars, graphVars>>

\* POST /refresh arrives: lines 201-203, up to the gather of its pass
Refresh ==
    /\ Serving
    /\ started <= MaxPasses
    /\ \E c \in Clients :
        /\ \A p \in PassIds : passes[p].caller # c
        /\ passes' = Append(passes, update_skill_catalog(started + 1, c))
    /\ started' = started + 1
    /\ UNCHANGED <<urls, skill_catalog, answer>>
    /\ UNCHANGED <<hostVars, credVars, graphVars>>

ReadWaits_always == TRUE  \* the test as it would be without the cache

\* line 120, 128, 149: `if not skill_catalog` sends a read into a pass of
\* its own
ReadWaits == ~skill_catalog.built

\* lines 117-123: GET /catalog
get_skill_catalog == skill_catalog

Available(entries) == SelectSeq(entries, LAMBDA e : e.status # "unavailable")

\* lines 125-139: GET /skills
get_available_skills ==
    [available_skills |-> Len(Available(skill_catalog.skills)),
     skills |-> Available(skill_catalog.skills)]

\* lines 211-218: GET /health of the discovery service
discovery_health_check ==
    [status |-> "healthy", catalog_size |-> Len(skill_catalog.skills)]

\* GET /catalog, /skills or /search arrives
Read ==
    /\ Serving
    /\ \E h \in ReadHandlers :
        IF ReadWaits
        THEN /\ started <= MaxPasses
             /\ passes' = Append(passes, update_skill_catalog(started + 1, h))
             /\ started' = started + 1
             /\ UNCHANGED <<urls, skill_catalog, answer>>
        ELSE /\ answer' = ReadAnswer(h, skill_catalog)
             /\ UNCHANGED <<urls, skill_catalog, passes, started>>
    /\ UNCHANGED <<hostVars, credVars, graphVars>>

InitService ==
    /\ urls \in SeqsUpTo(Urls, MaxServiceUrls)
    /\ skill_catalog = EmptyCatalog
    /\ passes = <<>>
    /\ started = 0
    /\ answer = NoAnswer
    /\ HostIdle
    /\ CredIdle
    /\ GraphIdle

NextService ==
    \/ startup_event
    \/ Refresh
    \/ FetchDone
    \/ BuildPass
    \/ PublishPass

SpecService == InitService /\ [][NextService]_vars

\* the service with its reads; a refresh arrives when no pass is in flight
RefreshAlone == passes = <<>> /\ Refresh

NextReads ==
    \/ startup_event
    \/ RefreshAlone
    \/ Read
    \/ FetchDone
    \/ BuildPass
    \/ PublishPass

SpecReads == InitService /\ [][NextReads]_vars

(***************************************************************************)
(* The host: one process, started once, then serving requests.             *)
(***************************************************************************)
DiscIdle ==
    /\ urls = <<>>
    /\ skill_catalog = EmptyCatalog
    /\ passes = <<>>
    /\ started = 0
    /\ answer = NoAnswer

(***************************************************************************)
(* The host process over several runs: the process ends and create_app     *)
(* (lines 403-406) runs again. What the process held in memory is gone,    *)
(* config_path keeps what the last run left in it.                         *)
(***************************************************************************)
Restart ==
    /\ phase \in {"serving", "crashed"}
    /\ phase' = "new"
    /\ skills' = <<>>
    /\ routes' = <<>>
    /\ loadLog' = <<>>
    /\ resp' = NoResp
    /\ fileOps' = <<>>
    /\ sys_path' = BasePath
    /\ UNCHANGED <<config, catalog_call>>
    /\ UNCHANGED <<discVars, credVars, graphVars>>

Init ==
    /\ phase = "new"
    /\ config \in ConfigFiles
    /\ skills = <<>>
    /\ routes = <<>>
    /\ loadLog = <<>>
    /\ resp = NoResp
    /\ catalog_call = NoCall
    /\ fileOps = <<>>
    /\ sys_path = BasePath
    /\ DiscIdle
    /\ CredIdle
    /\ GraphIdle

Next ==
    \/ Startup
    \/ Reload
    \/ Rediscover
    \/ GetCatalog

Spec == Init /\ [][Next]_vars

\* the host started by a process whose sys.path may hold a skill's
\* directory already (PYTHONPATH, or the directory the process runs in)
SysPaths ==
    {BasePath} \cup {<<s>> \o BasePath : s \in Sources}
               \cup {BasePath \o <<s>> : s \in Sources}

InitPath ==
    /\ phase = "new"
    /\ config \in ConfigFiles
    /\ skills = <<>>
    /\ routes = <<>>
    /\ loadLog = <<>>
    /\ resp = NoResp
    /\ catalog_call = NoCall
    /\ fileOps = <<>>
    /\ sys_path \in SysPaths
    /\ DiscIdle
    /\ CredIdle
    /\ GraphIdle

NextPath == Startup

SpecPath == InitPath /\ [][NextPath]_vars

\* the host over its runs: started, ended, started again on the same file
NextStartup ==
    \/ Startup
    \/ Restart

SpecStartup == Init /\ [][NextStartup]_vars

(***************************************************************************)
(* The host's own routes and the mounts, as URL paths. A path is the       *)
(* sequence of its segments. setup_unified_endpoints (line 66) adds the    *)
(* host's routes before the first load (line 69), so they stand first in   *)
(* the route table; load_skill mounts at "/skills/" + mount (line 181), and*)
(* the router drops the trailing "/" a mount point ends with, so that an   *)
(* empty mount gives the mount point /skills.                              *)
(***************************************************************************)
ReservedPaths ==
    {<<>>, <<"health">>, <<"catalog">>, <<"skills">>, <<"reload">>, <<"rediscover">>}

MountPoint(m) == IF m = "" THEN <<"skills">> ELSE <<"skills", m>>

\* a Mount answers the paths below its mount point
Below(point, p) == Len(point) < Len(p) /\ SubSeq(p, 1, Len(point)) = point

\* who answers a request to path p: the first route of the table it matches
Answers(p) ==
    IF p \in ReservedPaths THEN "host"
    ELSE IF \E i \in 1..Len(routes) : Below(MountPoint(routes[i].path), p)
         THEN "mounted"
         ELSE "none"

\* config files whose descriptors may also ask for the empty mount
ReservedFiles ==
    {[kind |-> "ok", skills |-> s] :
        s \in {t \in SeqsUpTo(Descriptors \cup {[d EXCEPT !.mount = ""] : d \in Descriptors},
                               MaxDesc) : UniqueNames(t)}}

InitReserved ==
    /\ phase = "new"
    /\ config \in ReservedFiles
    /\ skills = <<>>
    /\ routes = <<>>
    /\ loadLog = <<>>
    /\ resp = NoResp
    /\ catalog_call = NoCall
    /\ fileOps = <<>>
    /\ sys_path = BasePath
    /\ DiscIdle
    /\ CredIdle
    /\ GraphIdle

NextReserved ==
    \/ Startup
    \/ Restart

SpecReserved == InitReserved /\ [][NextReserved]_vars

\* the host with one GET /catalog that suspends in its awaits, and the
\* reloads and rediscovers that run while it is suspended
OverlappingReload == catalog_call.stage = "suspended" /\ Reload

OverlappingRediscover == catalog_call.stage = "suspended" /\ Rediscover

NextOverlap ==
    \/ Startup
    \/ CatalogBegin
    \/ CatalogResume
    \/ OverlappingReload
    \/ OverlappingRediscover

SpecOverlap == Init /\ [][NextOverlap]_vars

(***************************************************************************)
(* GET /search (lines 141-198). A str is a sequence of characters; an      *)
(* argument that was not given (None) and an empty one are both falsy and  *)
(* are the empty sequence here.                                            *)
(***************************************************************************)
\* str.lower, on the letters of the model
LowerChar(c) == IF c = "A" THEN "a" ELSE IF c = "B" THEN "b" ELSE c

Lower(w) == [i \in 1..Len(w) |-> LowerChar(w[i])]

\* Python's `q in w` on str
Contains(q, w) ==
    \E k \in 0..(Len(w) - Len(q)) : SubSeq(w, k + 1, k + Len(q)) = q

\* str.split(","): the pieces between the commas, empty ones included
RECURSIVE Split(_)
Split(w) ==
    IF \A i \in 1..Len(w) : w[i] # ","
    THEN <<w>>
    ELSE LET i == CHOOSE j \in 1..Len(w) :
                    w[j] = "," /\ \A k \in 1..(j - 1) : w[k] # ","
         IN  <<SubSeq(w, 1, i - 1)>> \o Split(SubSeq(w, i + 1, Len(w)))

Strip_nothing(w) == w  \* the tag as it would be without .strip()

\* str.strip(): without the whitespace at its ends
RECURSIVE Strip(_)
Strip(w) ==
    IF w # <<>> /\ Head(w) = " " THEN Strip(Tail(w))
    ELSE IF w # <<>> /\ w[Len(w)] = " " THEN Strip(SubSeq(w, 1, Len(w) - 1))
    ELSE w

\* the texts the fields of the catalog's inventories hold
TextWords == {<<"A">>, <<"a", "b">>}

\* an entry as search reads it: skill.get(field, default) of each field it
\* looks at; an inventory has the fields its handler gave it
Inventories ==
    {[status |-> "none", name |-> n, description |-> d, use_cases |-> u,
      example_queries |-> q, category |-> c, complexity |-> x, tags |-> t] :
        n \in TextWords \cup {<<>>}, d \in TextWords \cup {<<>>},
        u \in {<<w>> : w \in TextWords} \cup {<<>>},
        q \in {<<w>> : w \in TextWords} \cup {<<>>},
        c \in TextWords, x \in TextWords,
        t \in {<<>>, << <<"A">> >>, << <<"a", "b">>, <<"A">> >>}}

\* the inventories that hold a text in at most one of the text fields
OneText(e) ==
    Cardinality({f \in {"name", "description", "use_cases", "example_queries"} :
                    e[f] # <<>>}) <= 1

\* lines 99-106: a placeholder has a name (it holds the letter a), a
\* status and none of the other fields
SearchPlaceholder ==
    [status |-> "unavailable", name |-> <<"a">>, description |-> <<>>,
     use_cases |-> <<>>, example_queries |-> <<>>, category |-> <<>>,
     complexity |-> <<>>, tags |-> <<>>]

SearchEntries == {e \in Inventories : OneText(e)} \cup {SearchPlaceholder}

QueryArgs == {<<>>, <<"a">>, <<"A", "B">>, <<"b">>}

CategoryArgs == {<<>>, <<"a">>, <<"A", "B">>}

ComplexityArgs == {<<>>, <<"a">>}

TagArgs ==
    {<<>>, <<"a">>, <<" ", "a">>, <<"b", ",", "A", " ">>, <<"a", "b">>, <<",">>}

MatchesQuery_reversed(e, query_lower) ==
    \* the test as it would be with the operands of `in` exchanged
    \/ Contains(Lower(e.name), query_lower)
    \/ Contains(Lower(e.description), query_lower)
    \/ \E i \in 1..Len(e.use_cases) : Contains(Lower(e.use_cases[i]), query_lower)
    \/ \E i \in 1..Len(e.example_queries) :
            Contains(Lower(e.example_queries[i]), query_lower)

\* lines 164-167
MatchesQuery(e, query_lower) ==
    \/ Contains(query_lower, Lower(e.name))
    \/ Contains(query_lower, Lower(e.description))
    \/ \E i \in 1..Len(e.use_cases) : Contains(query_lower, Lower(e.use_cases[i]))
    \/ \E i \in 1..Len(e.example_queries) :
            Contains(query_lower, Lower(e.example_queries[i]))

MatchesCategory_substring(e, category) ==
    \* the test as it would be with `in` for `==`
    Contains(Lower(category), Lower(e.category))

\* line 173
MatchesCategory(e, category) == Lower(e.category) = Lower(category)

\* line 179
MatchesComplexity(e, complexity) == Lower(e.complexity) = Lower(complexity)

\* line 183
TagList(tags) ==
    LET pieces == Split(tags)
    IN  [i \in 1..Len(pieces) |-> Lower(Strip(pieces[i]))]

\* line 186
MatchesTags(e, tag_list) ==
    \E k \in 1..Len(tag_list) :
        \E i \in 1..Len(e.tags) : Lower(e.tags[i]) = tag_list[k]

search_skills(query, category, complexity, tags) ==
    LET available_skills == Available(skill_catalog.skills)
        by_query ==
            IF query # <<>>
            THEN SelectSeq(available_skills, LAMBDA e : MatchesQuery(e, Lower(query)))
            ELSE available_skills
        by_category ==
            IF category # <<>>
            THEN SelectSeq(by_query, LAMBDA e : MatchesCategory(e, category))
            ELSE by_query
        by_complexity ==
            IF complexity # <<>>
            THEN SelectSeq(by_category, LAMBDA e : MatchesComplexity(e, complexity))
            ELSE by_category
        filtered_skills ==
            IF tags # <<>>
            THEN SelectSeq(by_complexity, LAMBDA e : MatchesTags(e, TagList(tags)))
            ELSE by_complexity
    IN  [op |-> "search",
         query |-> [text |-> query, category |-> category,
                    complexity |-> complexity, tags |-> tags],
         results |-> Len(filtered_skills),
         skills |-> filtered_skills]

\* a search changes nothing it reads: one search of each catalog shows all
\* that any later one would
Search ==
    /\ answer = NoAnswer
    /\ \E query \in QueryArgs, category \in CategoryArgs,
          complexity \in ComplexityArgs, tags \in TagArgs :
            answer' = search_skills(query, category, complexity, tags)
    /\ UNCHANGED <<urls, skill_catalog, passes, started>>
    /\ UNCHANGED <<hostVars, credVars, graphVars>>

\* the catalogs a search can find published
SearchCatalogs ==
    {[built |-> TRUE, total_skills |-> Len(s),
      available_skills |-> Len(Available(s)), skills |-> s] :
        s \in SeqsUpTo(SearchEntries, MaxCatalog)}

InitSearch ==
    /\ urls = <<>>
    /\ skill_catalog \in SearchCatalogs
    /\ passes = <<>>
    /\ started = 1
    /\ answer = NoAnswer
    /\ HostIdle
    /\ CredIdle
    /\ GraphIdle

NextSearch == Search

SpecSearch == InitSearch /\ [][NextSearch]_vars

(***************************************************************************)
(* POST /run of a skill runtime. temp_env_context (anthropic_time lines    *)
(* 28-57, supabase_execute_sql lines 65-94) is a plain context manager     *)
(* around an await: the handler injects on entry, is suspended inside the  *)
(* skill logic, where other handlers of the same process run, and restores *)
(* in the finally clause when the logic returned or raised. The skill      *)
(* logic reads os.environ (supabase lines 102-103) while it runs.          *)
(***************************************************************************)
\* lines 45-48: remember what each carried name held, then set it
Inject(env, credentials) ==
    [k \in EnvNames |-> IF credentials[k] # Unset THEN credentials[k] ELSE env[k]]

\* lines 52-57: put back what was remembered; pop a name that was not set
Restore(env, credentials, original_values) ==
    [k \in EnvNames |-> IF credentials[k] # Unset THEN original_values[k] ELSE env[k]]

\* the handler up to its first suspension inside the with block
Enter(r) ==
    /\ runs[r].stage = "none"
    /\ \E credentials \in Credentials :
         /\ runs' = [runs EXCEPT ![r] =
                        [NoRun EXCEPT !.stage = "inside",
                                      !.credentials = credentials,
                                      !.original_values = environ]]
         /\ environ' = Inject(environ, credentials)
    /\ UNCHANGED base_env
    /\ UNCHANGED <<hostVars, discVars, graphVars>>

\* the skill logic reads its configuration from the environment
ReadEnv(r) ==
    /\ runs[r].stage = "inside"
    /\ runs[r].seen = NotRead
    /\ runs' = [runs EXCEPT ![r].seen = environ]
    /\ UNCHANGED <<environ, base_env>>
    /\ UNCHANGED <<hostVars, discVars, graphVars>>

\* the skill logic returns or raises: the finally clause runs either way
Exit(r) ==
    /\ runs[r].stage = "inside"
    /\ \E status \in {200, 500} :
         runs' = [runs EXCEPT ![r].stage = "done", ![r].status = status]
    /\ environ' = Restore(environ, runs[r].credentials, runs[r].original_values)
    /\ UNCHANGED base_env
    /\ UNCHANGED <<hostVars, discVars, graphVars>>

InitRuntime ==
    /\ environ \in Environs
    /\ base_env = environ
    /\ runs = [r \in Requests |-> NoRun]
    /\ HostIdle
    /\ DiscIdle
    /\ GraphIdle

NextRuntime ==
    \/ \E r \in Requests : Enter(r)
    \/ \E r \in Requests : ReadEnv(r)
    \/ \E r \in Requests : Exit(r)

SpecRuntime == InitRuntime /\ [][NextRuntime]_vars

(***************************************************************************)
(* The operations of the memory skill's KnowledgeGraph. Each method edits  *)
(* self.entities and self.relations in place while it loops over what it   *)
(* was given, and calls _save afterwards if it counted a change. _save     *)
(* opens the file for writing and dumps the graph into it; an IOError      *)
(* becomes an HTTPException with status 500 (lines 48-50), which leaves    *)
(* the method before its return.                                           *)
(***************************************************************************)
\* the longest list an operation is given
MaxArgs == 2

EntityNames == {"a", "b"}

\* entity.get("name") of an entity with no name, or with an empty one
NoName == ""

\* entity.get("entityType", ...) of an entity that carries no type
NoType == "no_type"

Entity(name, entityType, observations) ==
    [name |-> name, entityType |-> entityType, observations |-> observations]

\* the entities create_entities is given: two for one name that differ in
\* type and observations (one list repeats an observation), one with no name
EntityInputs ==
    {Entity("a", "t1", <<>>), Entity("a", NoType, <<"o1", "o1">>),
     Entity("b", "t1", <<>>), Entity(NoName, "t1", <<>>)}

Relation(from, to) == [from |-> from, to |-> to, relationType |-> "knows"]

RelationInputs == {Relation("a", "b"), Relation("b", "a"), Relation("a", NoName)}

\* the items add_observations is given
ObservationInputs == [entityName : {"a"}, contents : {<<>>, <<"o1">>}]

\* the items delete_observations is given
DeletionInputs == [entityName : {"a"}, observations : {<<>>, <<"o1">>}]

Queries == {"", "a", "t", "o1"}

\* the non-empty queries that occur in a text (`query in text.lower()`)
QueriesIn(text) ==
    CASE text = "a" -> {"a"}
      [] text = "t1" -> {"t"}
      [] text = "o1" -> {"o1"}
      [] OTHER -> {}

\* how _save can end: the dump is written; open() raises and the file is
\* as it was; the file was opened (and so emptied) and the write raises
SaveOutcomes == {"ok", "open_fails", "write_fails"}

\* self.entities[name] = value
EntityPut(ents, name, value) ==
    [n \in DOMAIN ents \cup {name} |-> IF n = name THEN value ELSE ents[n]]

\* del self.entities[name]
EntityDel(ents, name) == [n \in DOMAIN ents \ {name} |-> ents[n]]

\* line 56 with the condition the mutation drops: an existing name is new
IsNew_overwrite(ents, name) == name # NoName

\* line 56: `if name and name not in self.entities`
IsNew(ents, name) == name # NoName /\ name \notin DOMAIN ents

\* lines 57-60: the entity create_entities stores
NewEntity(entity) ==
    [entityType |-> IF entity.entityType = NoType THEN "unknown" ELSE entity.entityType,
     observations |-> Range(entity.observations)]

\* lines 53-61: the loop of create_entities
RECURSIVE create_entities(_, _, _)
create_entities(ents, input, count) ==
    IF input = <<>> THEN [entities |-> ents, count |-> count]
    ELSE LET entity == Head(input)
         IN  IF IsNew(ents, entity.name)
             THEN create_entities(EntityPut(ents, entity.name, NewEntity(entity)),
                                  Tail(input), count + 1)
             ELSE create_entities(ents, Tail(input), count)

\* lines 67-72: the loop of create_relations
RECURSIVE create_relations(_, _, _, _)
create_relations(ents, rels, input, count) ==
    IF input = <<>> THEN [relations |-> rels, count |-> count]
    ELSE LET rel == Head(input)
         IN  IF /\ rel.from \in DOMAIN ents
                /\ rel.to \in DOMAIN ents
                /\ rel \notin Range(rels)
             THEN create_relations(ents, Append(rels, rel), Tail(input), count + 1)
             ELSE create_relations(ents, rels, Tail(input), count)

\* lines 78-88: the loop of add_observations
RECURSIVE add_observations(_, _, _)
add_observations(ents, input, updated_count) ==
    IF input = <<>> THEN [entities |-> ents, count |-> updated_count]
    ELSE LET obs == Head(input)
             entity_name == obs.entityName
         IN  IF entity_name \in DOMAIN ents
             THEN LET existing_obs == ents[entity_name].observations
                      updated == existing_obs \cup Range(obs.contents)
                  IN  IF Cardinality(updated) > Cardinality(existing_obs)
                      THEN add_observations(
                               [ents EXCEPT ![entity_name].observations = updated],
                               Tail(input), updated_count + 1)
                      ELSE add_observations(ents, Tail(input), updated_count)
             ELSE add_observations(ents, Tail(input), updated_count)

\* line 98 with the filter the mutation drops: the relations stay
WithoutEntity_keeps(rels, name) == rels

\* line 98: the relations that do not touch the deleted entity
WithoutEntity(rels, name) ==
    SelectSeq(rels, LAMBDA r : r.from # name /\ r.to # name)

\* lines 94-99: the loop of delete_entities
RECURSIVE delete_entities(_, _, _, _)
delete_entities(ents, rels, entity_names, deleted_count) ==
    IF entity_names = <<>>
    THEN [entities |-> ents, relations |-> rels, count |-> deleted_count]
    ELSE LET name == Head(entity_names)
         IN  IF name \in DOMAIN ents
             THEN delete_entities(EntityDel(ents, name), WithoutEntity(rels, name),
                                  Tail(entity_names), deleted_count + 1)
             ELSE delete_entities(ents, rels, Tail(entity_names), deleted_count)

\* lines 105-115: the loop of delete_observations
RECURSIVE delete_observations(_, _, _)
delete_observations(ents, deletions, updated_count) ==
    IF deletions = <<>> THEN [entities |-> ents, count |-> updated_count]
    ELSE LET item == Head(deletions)
             name == item.entityName
         IN  IF name \in DOMAIN ents
             THEN LET current_obs == ents[name].observations
                      left == current_obs \ Range(item.observations)
                  IN  IF Cardinality(left) < Cardinality(current_obs)
                      THEN delete_observations(
                               [ents EXCEPT ![name].observations = left],
                               Tail(deletions), updated_count + 1)
                      ELSE delete_observations(ents, Tail(deletions), updated_count)
             ELSE delete_observations(ents, Tail(deletions), updated_count)

\* lines 121-123 of delete_relations
delete_relations(rels, relations_to_delete) ==
    LET left == SelectSeq(rels, LAMBDA r : r \notin Range(relations_to_delete))
    IN  [relations |-> left, count |-> Len(rels) - Len(left)]

\* {"name": name, **data}
Node(ents, name) ==
    [name |-> name, entityType |-> ents[name].entityType,
     observations |-> ents[name].observations]

\* lines 135-140: the entities whose name, type or observations hold the query
search_nodes(ents, query) ==
    {Node(ents, name) : name \in
        {n \in DOMAIN ents :
            \/ query \in QueriesIn(n)
            \/ query \in QueriesIn(ents[n].entityType)
            \/ \E o \in ents[n].observations : query \in QueriesIn(o)}}

\* line 144
RECURSIVE open_nodes(_, _)
open_nodes(ents, names) ==
    IF names = <<>> THEN <<>>
    ELSE IF Head(names) \in DOMAIN ents
         THEN <<Node(ents, Head(names))>> \o open_nodes(ents, Tail(names))
         ELSE open_nodes(ents, Tail(names))

(* The end of a writing method: the graph in memory is what the loop left, *)
(* _save runs if the count is positive, and the handler answers 200 with   *)
(* the count, or 500 when _save raised. The answer is kept with the list   *)
(* a create_entities call was given (given is empty for the other calls).  *)
Finish(op, given, ents, rels, count) ==
    \E wrote \in IF count > 0 THEN SaveOutcomes ELSE {"none"} :
            /\ entities' = ents
            /\ relations' = rels
            /\ memory_file' = CASE wrote = "ok" -> Dump(ents, rels)
                                [] wrote = "write_fails" -> TruncatedFile
                                [] OTHER -> memory_file
            /\ graph_result' =
                   [op |-> op, entities |-> given,
                    status |-> IF wrote \in {"none", "ok"} THEN 200 ELSE 500,
                    count |-> count, wrote |-> wrote, nodes |-> <<>>]
            /\ UNCHANGED <<hostVars, discVars, credVars>>

\* a method that only reads
Answer(op, nodes) ==
    /\ graph_result' = [op |-> op, entities |-> <<>>, status |-> 200, count |-> 0,
                        wrote |-> "none", nodes |-> nodes]
    /\ UNCHANGED <<entities, relations, memory_file>>
    /\ UNCHANGED <<hostVars, discVars, credVars>>

CreateEntities ==
    \E input \in SeqsUpTo(EntityInputs, MaxArgs) :
        LET r == create_entities(entities, input, 0)
        IN  Finish("create_entities", input, r.entities, relations, r.count)

CreateRelations ==
    \E input \in SeqsUpTo(RelationInputs, MaxArgs) :
        LET r == create_relations(entities, relations, input, 0)
        IN  Finish("create_relations", <<>>, entities, r.relations, r.count)

AddObservations ==
    \E input \in SeqsUpTo(ObservationInputs, MaxArgs) :
        LET r == add_observations(entities, input, 0)
        IN  Finish("add_observations", <<>>, r.entities, relations, r.count)

DeleteEntities ==
    \E input \in SeqsUpTo(EntityNames, MaxArgs) :
        LET r == delete_entities(entities, relations, input, 0)
        IN  Finish("delete_entities", <<>>, r.entities, r.relations, r.count)

DeleteObservations ==
    \E input \in SeqsUpTo(DeletionInputs, MaxArgs) :
        LET r == delete_observations(entities, input, 0)
        IN  Finish("delete_observations", <<>>, r.entities, relations, r.count)

DeleteRelations ==
    \E input \in SeqsUpTo(RelationInputs, MaxArgs) :
        LET r == delete_relations(relations, input)
        IN  Finish("delete_relations", <<>>, entities, r.relations, r.count)

ReadGraph ==
    Answer("read_graph", {Node(entities, n) : n \in DOMAIN entities})

\* line 132-133: an empty query is refused with success False and no nodes
SearchNodes ==
    \E query \in Queries :
        Answer("search_nodes",
               IF query = "" THEN {} ELSE search_nodes(entities, query))

OpenNodes ==
    \E names \in SeqsUpTo(EntityNames, MaxArgs) :
        Answer("open_nodes", open_nodes(entities, names))

\* the process starts with no memory file or with one that holds no entity
InitGraph ==
    /\ memory_file \in {NoFile, Dump(NoEntities, <<>>)}
    /\ entities = Load(memory_file).entities
    /\ relations = Load(memory_file).relations
    /\ graph_result = NoResult
    /\ HostIdle
    /\ DiscIdle
    /\ CredIdle

NextGraph ==
    \/ CreateEntities
    \/ CreateRelations
    \/ AddObservations
    \/ DeleteEntities
    \/ DeleteObservations
    \/ DeleteRelations
    \/ ReadGraph
    \/ SearchNodes
    \/ OpenNodes

SpecGraph == InitGraph /\ [][NextGraph]_vars

(***************************************************************************)
(* Properties of the host.                                                 *)
(***************************************************************************)
\* the lines of the last load pass, by what became of the descriptor
MountedLines == {i \in 1..Len(loadLog) : loadLog[i].result = "mounted"}

FailedLines ==
    {i \in 1..Len(loadLog) : loadLog[i].result \in {"missing", "raises", "noapp"}}

EnabledLines == MountedLines \cup FailedLines

ReloadDone(r) == r.op \in {"reload", "rediscover"}

\* C1: a reload or rediscover that fails answers with an error and leaves
\* the mounted set as it was: the registry holds the same handlers and the
\* same requests are routed to the same handlers as before the call.
C1_FailedReloadKeepsGeneration ==
    [][(ReloadDone(resp') /\ resp'.status = 500)
        => /\ skills' = skills
           /\ \A m \in Mounts : RouteRequest(m)' = RouteRequest(m)]_vars

\* C2: after a successful reload whose enabled, loadable descriptors have
\* the mount paths N, a request under a path of the old mount set that is
\* not in N gets the router's 404 and a request under a path in N is routed.
C2_ReloadReplacesMountSet ==
    (resp.op = "reload" /\ resp.status = 200)
        => LET N == {loadLog[i].mount : i \in MountedLines}
           IN  /\ \A m \in Range(resp.old_skills) \ N : RouteRequest(m) = NotFound
               /\ \A m \in N : RouteRequest(m) # NotFound

\* C3: after a reload or rediscover every surface answers from the new
\* generation: a request under a mount path that /health, /skills and /
\* list is served by the app instance loaded for the new generation, the
\* one the registry holds for that path.
C3_NoMixedGeneration ==
    (ReloadDone(resp) /\ resp.status = 200)
        => \A m \in Mounts :
              DictHas(skills, m) => RouteRequest(m) = DictGet(skills, m).app

\* C4: after a load of N enabled descriptors with pairwise distinct mount
\* paths of which K could not be loaded, N-K handlers are mounted and served,
\* the K failed paths get the router's 404, and the response names the K
\* failures.
C4_PartialFailureTolerance ==
    (/\ ReloadDone(resp) /\ resp.status = 200
     /\ \A i, j \in EnabledLines : i # j => loadLog[i].mount # loadLog[j].mount)
        => /\ Len(skills) = Cardinality(EnabledLines) - Cardinality(FailedLines)
           /\ \A i \in MountedLines : RouteRequest(loadLog[i].mount) # NotFound
           /\ \A i \in FailedLines : RouteRequest(loadLog[i].mount) = NotFound
           /\ Range(resp.load_errors) = {loadLog[i].name : i \in FailedLines}

\* C5: a configuration in which two enabled descriptors declare the same
\* mount path is rejected: nothing of it is mounted; so no two handlers
\* mounted by one load share a mount path.
C5_MountPathsUnique ==
    phase = "serving"
        => /\ (\E i, j \in EnabledLines : i # j /\ loadLog[i].mount = loadLog[j].mount)
                => MountedLines = {}
           /\ \A i, j \in MountedLines : i # j => loadLog[i].mount # loadLog[j].mount

C8_HostCatalogComplete ==
    resp.op = "catalog"
        => /\ Len(resp.entries) = resp.total_skills
           /\ resp.total_skills = Len(skills)
           /\ \A i \in 1..Len(skills) :
                \E j \in 1..Len(resp.entries) :
                    resp.entries[j].skill = skills[i].mount_path

\* C9: a descriptor that failed to load is not listed by GET /skills but
\* has an entry in GET /catalog, marked unavailable.
C9_BrokenSkillInCatalog ==
    resp.op = "catalog"
        => \A i \in FailedLines :
              /\ \A k \in 1..Len(get_skills.skills) :
                    get_skills.skills[k].name # loadLog[i].name
              /\ \E j \in 1..Len(resp.entries) :
                    /\ resp.entries[j].skill = loadLog[i].mount
                    /\ resp.entries[j].status = "unavailable"

(***************************************************************************)
(* Properties of the discovery service.                                    *)
(***************************************************************************)
Closing == {p \in PassIds : passes[p].stage = "closing"}

\* C7: the catalog a pass builds over a URL list of length n, and the one
\* it leaves published, has n entries and counts n skills, whatever the
\* fetches came to; the entry of a handler that could not be reached is
\* marked unavailable.
C7_DiscoveryCatalogComplete ==
    /\ \A p \in Closing :
        LET c == passes[p].new_catalog
            n == Len(passes[p].skill_urls)
        IN  /\ Len(c.skills) = n
            /\ c.total_skills = n
            /\ \A i \in 1..n :
                passes[p].outcome[i] \in Unreachable
                    => c.skills[i].status = "unavailable"
    /\ skill_catalog.built =>
        /\ Len(skill_catalog.skills) = Len(urls)
        /\ skill_catalog.total_skills = Len(urls)

C7_Witness ==
    /\ skill_catalog.built
    /\ passes = <<>>
    /\ Len(urls) = 2
    /\ skill_catalog.skills[1].status = "unavailable"
    /\ skill_catalog.skills[2].kind = "inventory"

\* what in a catalog entry ties it to the handler at base URL u
Corresponds(e, u) ==
    /\ e.kind \in {"inventory", "placeholder"} => e.base_url = u
    /\ e.kind \in {"inventory", "raw"} => e.body = u
    /\ e.kind \in {"inventory", "raw", "placeholder"}

\* C10: whatever the order in which the fetches of a pass ended, the i-th
\* entry of the catalog the pass built belongs to the i-th configured URL.
C10_CatalogInUrlOrder ==
    \A p \in Closing :
        /\ Len(passes[p].new_catalog.skills) = Len(passes[p].skill_urls)
        /\ \A i \in 1..Len(passes[p].skill_urls) :
            Corresponds(passes[p].new_catalog.skills[i], passes[p].skill_urls[i])

C10_Witness ==
    \E p \in Closing :
        /\ passes[p].done = <<2, 1>>
        /\ passes[p].skill_urls[1] # passes[p].skill_urls[2]
        /\ passes[p].new_catalog.skills[1].kind = "raw"
        /\ passes[p].new_catalog.skills[2].kind = "inventory"

\* the pass as it would be had the handler of fetch j answered normally
AnsweredNormally(pass, j) == [pass EXCEPT !.outcome[j] = "skill"]

\* C11: in the catalog a pass built, a fetch that failed or timed out shows
\* in its own entry only: the entry of every other handler is the one the
\* pass would have built had the failing handler answered normally.
C11_FailureIsolation ==
    \A p \in Closing :
        \A j \in 1..Len(passes[p].skill_urls) :
            passes[p].outcome[j] \in Unreachable =>
                LET alt == AnsweredNormally(passes[p], j)
                    other == BuildCatalog(alt.skill_urls, gather(alt), 1, NewCatalog)
                IN  \A i \in 1..Len(passes[p].skill_urls) \ {j} :
                        /\ i <= Len(passes[p].new_catalog.skills)
                        /\ passes[p].new_catalog.skills[i] = other.skills[i]

C11_Witness ==
    \E p \in Closing :
        /\ Len(passes[p].skill_urls) = 2
        /\ passes[p].outcome[1] = "timeout"
        /\ passes[p].outcome[2] = "skill"
        /\ passes[p].new_catalog.skills[1].status = "unavailable"
        /\ passes[p].new_catalog.skills[2].kind = "inventory"

\* a catalog whose loop ran to its end: one entry per configured URL and
\* counters that agree with the entries
Complete(c) ==
    /\ c.built
    /\ Len(c.skills) = Len(urls)
    /\ c.total_skills = Len(c.skills)
    /\ c.available_skills = Len(Available(c.skills))

C13_CatalogOverlappingReload ==
    catalog_call.stage = "answered"
        => /\ catalog_call.status = 200
           /\ \/ Range(catalog_call.asked) \subseteq catalog_call.old
              \/ Range(catalog_call.asked) \subseteq catalog_call.new

\* the items of the current configuration that are disabled descriptors
DisabledItems ==
    {i \in 1..Len(config.skills) :
        config.skills[i].isdict /\ ~config.skills[i].enabled}

\* the mount paths the current configuration gives to an enabled descriptor
EnabledMounts ==
    {config.skills[i].mount :
        i \in {j \in 1..Len(config.skills) :
                    config.skills[j].isdict /\ config.skills[j].enabled}}

\* C16: after the startup and after every reload or rediscover, a
\* descriptor the current configuration disables is neither in the registry
\* nor routed: a request under its mount path reaches no handler (unless an
\* enabled descriptor of the configuration declares the same path).
C16_DisabledNeverRouted ==
    phase = "serving"
        => \A i \in DisabledItems :
              config.skills[i].mount \notin EnabledMounts
                  => /\ ~DictHas(skills, config.skills[i].mount)
                     /\ RouteRequest(config.skills[i].mount) = NotFound

\* line 66-67: the text of the exception a failed fetch raised, which the
\* except branch prints
ErrorText(outcome) ==
    IF outcome = "timeout" THEN "ReadTimeout" ELSE "ConnectError"

\* C15: the entry of a handler whose fetch failed is marked unavailable and
\* its error field holds the text of that failure, so that a timeout reads
\* differently from a refused connection.
C15_UnavailableCarriesCause ==
    \A p \in Closing :
        \A i \in 1..Len(passes[p].skill_urls) :
            passes[p].outcome[i] \in Unreachable =>
                /\ i <= Len(passes[p].new_catalog.skills)
                /\ passes[p].new_catalog.skills[i].status = "unavailable"
                /\ passes[p].new_catalog.skills[i].error
                        = ErrorText(passes[p].outcome[i])

\* the longest wait of a single fetch of the pass
RECURSIVE MaxWait(_, _)
MaxWait(pass, i) ==
    IF i = 0 THEN 0
    ELSE LET m == MaxWait(pass, i - 1)
         IN  IF pass.waited[i] > m THEN pass.waited[i] ELSE m

\* C14: a pass always ends, and the time it spends in its gather is the
\* longest wait of a single fetch, at most one timeout however many
\* handlers stay silent: the waits run side by side, they do not add up.
C14_PassBoundedBySlowestFetch ==
    /\ [](\A p \in PassIds :
            /\ passes[p].elapsed <= Timeout
            /\ passes[p].elapsed >= MaxWait(passes[p], Len(passes[p].skill_urls))
            /\ passes[p].stage = "closing" =>
                    passes[p].elapsed
                        = MaxWait(passes[p], Len(passes[p].skill_urls)))
    /\ (passes # <<>>) ~> (passes = <<>> /\ skill_catalog.built)

C14_Witness ==
    \E p \in Closing :
        /\ Len(passes[p].skill_urls) = 2
        /\ passes[p].outcome[1] = "skill"
        /\ passes[p].waited[1] = 1
        /\ passes[p].outcome[2] = "timeout"
        /\ passes[p].elapsed = Timeout

(***************************************************************************)
(* Properties of the search.                                               *)
(***************************************************************************)
\* w holds q as a substring when case is ignored
HoldsText(q, w) ==
    \E k \in 0..(Len(w) - Len(q)) :
        \A j \in 1..Len(q) : LowerChar(w[k + j]) = LowerChar(q[j])

SameIgnoringCase(u, v) ==
    /\ Len(u) = Len(v)
    /\ \A i \in 1..Len(u) : LowerChar(u[i]) = LowerChar(v[i])

InNameDescriptionUseCases(q, e) ==
    \/ HoldsText(q, e.name)
    \/ HoldsText(q, e.description)
    \/ \E i \in 1..Len(e.use_cases) : HoldsText(q, e.use_cases[i])

InExampleQueries(q, e) ==
    \E i \in 1..Len(e.example_queries) : HoldsText(q, e.example_queries[i])

\* C17: every entry a search by query returns holds the query, case
\* ignored, in its name, its description or one of its use cases.
C17_QueryOnlyThreeFields ==
    (answer.op = "search" /\ answer.query.text # <<>>)
        => \A i \in 1..Len(answer.skills) :
              InNameDescriptionUseCases(answer.query.text, answer.skills[i])

\* C17 as the code has it: every entry a search by query returns holds the
\* query, case ignored, in its name, its description, one of its use cases
\* or one of its example queries.
C17_QueryOnlyMatching ==
    (answer.op = "search" /\ answer.query.text # <<>>)
        => \A i \in 1..Len(answer.skills) :
              \/ InNameDescriptionUseCases(answer.query.text, answer.skills[i])
              \/ InExampleQueries(answer.query.text, answer.skills[i])

C17_Witness ==
    /\ answer.op = "search"
    /\ answer.query.text = <<"A", "B">>
    /\ answer.results = 1
    /\ answer.skills[1].example_queries = << <<"a", "b">> >>
    /\ ~InNameDescriptionUseCases(answer.query.text, answer.skills[1])

\* the tags a comma-separated argument asks for: each piece between two
\* commas, without the blanks at its ends, in lower case
Requested(tags) ==
    LET Cut == {k \in 0..(Len(tags) + 1) :
                    k = 0 \/ k = Len(tags) + 1 \/ tags[k] = ","}
        Pieces == {SubSeq(tags, a + 1, b - 1) :
                    <<a, b>> \in {c \in Cut \X Cut :
                        c[1] < c[2] /\ \A k \in Cut : ~(c[1] < k /\ k < c[2])}}
        Trimmed(p) ==
            IF \A i \in 1..Len(p) : p[i] = " " THEN <<>>
            ELSE LET a == CHOOSE i \in 1..Len(p) :
                            p[i] # " " /\ \A k \in 1..(i - 1) : p[k] = " "
                     b == CHOOSE i \in 1..Len(p) :
                            p[i] # " " /\ \A k \in (i + 1)..Len(p) : p[k] = " "
                 IN  SubSeq(p, a, b)
    IN  {Lower(Trimmed(p)) : p \in Pieces}

SharesTag(e, tags) ==
    \E i \in 1..Len(e.tags) : \E t \in Requested(tags) : SameIgnoringCase(e.tags[i], t)

\* C18: a search by tags alone returns exactly the available entries of
\* the catalog that have, case ignored, at least one of the tags asked for.
C18_TagsIntersect ==
    (/\ answer.op = "search" /\ answer.query.tags # <<>>
     /\ answer.query.text = <<>> /\ answer.query.category = <<>>
     /\ answer.query.complexity = <<>>)
        => answer.skills
            = SelectSeq(Available(skill_catalog.skills),
                        LAMBDA e : SharesTag(e, answer.query.tags))

C18_Witness ==
    /\ answer.op = "search"
    /\ answer.query =
            [text |-> <<>>, category |-> <<>>, complexity |-> <<>>,
             tags |-> <<"b", ",", "A", " ">>]
    /\ answer.results = 1
    /\ answer.skills[1].tags = << <<"A">> >>

InSeq(e, s) == \E i \in 1..Len(s) : s[i] = e

\* C19: a search by category alone, or by complexity alone, returns
\* exactly the available entries whose field equals the argument, case
\* ignored; a search by several arguments returns exactly the entries that
\* each of its arguments alone returns.
C19_FiltersExactAndConjunctive ==
    answer.op = "search" =>
        LET q == answer.query
            available == Available(skill_catalog.skills)
        IN  /\ (q.category # <<>> /\ q.text = <<>> /\ q.complexity = <<>> /\ q.tags = <<>>)
                => answer.skills
                    = SelectSeq(available,
                                LAMBDA e : SameIgnoringCase(e.category, q.category))
            /\ (q.complexity # <<>> /\ q.text = <<>> /\ q.category = <<>> /\ q.tags = <<>>)
                => answer.skills
                    = SelectSeq(available,
                                LAMBDA e : SameIgnoringCase(e.complexity, q.complexity))
            /\ answer.skills
                = SelectSeq(available, LAMBDA e :
                    /\ InSeq(e, search_skills(q.text, <<>>, <<>>, <<>>).skills)
                    /\ InSeq(e, search_skills(<<>>, q.category, <<>>, <<>>).skills)
                    /\ InSeq(e, search_skills(<<>>, <<>>, q.complexity, <<>>).skills)
                    /\ InSeq(e, search_skills(<<>>, <<>>, <<>>, q.tags).skills))

C19_Witness ==
    /\ answer.op = "search"
    /\ answer.query =
            [text |-> <<"b">>, category |-> <<"A", "B">>, complexity |-> <<"a">>,
             tags |-> <<>>]
    /\ answer.results = 1
    /\ answer.skills[1].category = <<"a", "b">>
    /\ answer.skills[1].complexity = <<"A">>

\* the passes of this state that the step has ended
Ended(p) == \A q \in 1..Len(passes') : passes'[q].id # passes[p].id

Begun(q) == \A p \in PassIds : passes[p].id # passes'[q].id

\* C21: in the serving discovery service a pass is started by the startup
\* or by a POST /refresh only: a read answers from the published catalog
\* and leaves the passes, and with them the handlers, alone.
C21_ReadsHitCache ==
    [][/\ \A q \in 1..Len(passes') :
            Begun(q) => passes'[q].caller \in {"startup_event"} \cup Clients
       /\ (Serving /\ answer'.op \in ReadHandlers /\ answer' # answer)
            => /\ passes' = passes
               /\ started' = started
               /\ skill_catalog' = skill_catalog]_vars

C21_Witness ==
    /\ answer.op = "search_skills"
    /\ answer.results = 1
    /\ skill_catalog.built
    /\ started = 1
    /\ passes = <<>>

\* C22: the GET /catalog that follows a successful reload or rediscover
\* lists the handlers of the new generation, one entry per mount path of
\* new_skills, and no other.
C22_ReloadInvalidatesCatalog ==
    [][(ReloadDone(resp) /\ resp.status = 200 /\ resp'.op = "catalog")
        => /\ Len(resp'.entries) = Len(resp.new_skills)
           /\ \A i \in 1..Len(resp.new_skills) :
                \E j \in 1..Len(resp'.entries) :
                    resp'.entries[j].skill = resp.new_skills[i]
           /\ \A j \in 1..Len(resp'.entries) :
                resp'.entries[j].skill \in Range(resp.new_skills)]_vars

\* C23: a successful reload or rediscover reports as old_skills the mount
\* paths the registry held right before it, as new_skills those it holds
\* right after, and as total_loaded their number.
C23_ReloadReportsGenerations ==
    [][(ReloadDone(resp') /\ resp'.status = 200)
        => /\ resp'.old_skills = DictKeys(skills)
           /\ resp'.new_skills = DictKeys(skills')
           /\ resp'.total_loaded = Cardinality(Range(resp'.new_skills))
           /\ resp'.total_loaded = Len(skills')]_vars

C23_Witness ==
    /\ resp.op = "rediscover" /\ resp.status = 200
    /\ resp.old_skills = <<"time">>
    /\ resp.new_skills = <<"memory", "time">>
    /\ resp.total_loaded = 2

\* a config file as auto-discovery writes it: one enabled descriptor per
\* package, named, located and mounted after the package, in name order
Discovered(file) ==
    /\ file.kind = "ok"
    /\ \A i \in 1..Len(file.skills) :
         /\ file.skills[i].isdict /\ file.skills[i].enabled
         /\ file.skills[i].path = file.skills[i].name
         /\ file.skills[i].mount = file.skills[i].name
    /\ \A i, j \in 1..Len(file.skills) :
         i < j => NameRank(file.skills[i].name) < NameRank(file.skills[j].name)

\* the handler called last wrote config_path
WroteConfig(ops) == \E i \in 1..Len(ops) : ops[i].file = "config"

\* C24: a POST /rediscover that finds a config file writes config_path only
\* after it wrote a backup holding what the config held before the call;
\* what it writes to config_path is an auto-discovered list whatever the
\* config held; a rediscover that answers 200 did write it; and the load
\* that follows clears and loads as POST /reload does on the written file.
C24_RediscoverBacksUpFirst ==
    [][resp'.op = "rediscover"
        => /\ \A i \in 1..Len(fileOps') :
                fileOps'[i].file = "config"
                  => /\ Discovered(fileOps'[i].content)
                     /\ config' = fileOps'[i].content
                     /\ config.kind # "absent"
                          => \E j \in 1..(i - 1) :
                                fileOps'[j] = FileOp("backup", "config", config)
           /\ \A i \in 1..Len(fileOps') :
                fileOps'[i].file = "backup" => fileOps'[i].content = config
           /\ resp'.status = 200 => WroteConfig(fileOps')
           /\ ~WroteConfig(fileOps')
                => /\ config' = config /\ skills' = skills
                   /\ routes' = routes /\ loadLog' = loadLog
           /\ WroteConfig(fileOps')
                => \E env \in {e \in Envs : e.example = AbsentFile} :
                     LET r == load_skills_from_config(
                                [skills |-> <<>>, routes |-> routes, log |-> <<>>,
                                 sys_path |-> sys_path],
                                config', env)
                     IN  /\ skills' = r.st.skills
                         /\ routes' = r.st.routes
                         /\ loadLog' = r.st.log
                         /\ resp' = IF r.raised THEN ErrorResp("rediscover")
                                    ELSE ReloadResp("rediscover", skills, r.st.skills)]_vars

C24_Witness ==
    /\ resp.op = "rediscover" /\ resp.status = 200
    /\ Len(fileOps) = 2
    /\ fileOps[1] = FileOp("backup", "config", MalformedFile)
    /\ fileOps[2].file = "config"
    /\ Len(fileOps[2].content.skills) = 2

\* the descriptors a load pass went through, in order
Processed(log) == [i \in 1..Len(log) |-> log[i].name]

Names(file) == [i \in 1..Len(file.skills) |-> file.skills[i].name]

\* a startup that got as far as serving
Started == phase = "new" /\ phase' = "serving"

\* what every startup does with the list in config_path: it goes through
\* exactly that list in order; it leaves a file it found as it was; and the
\* file outlives the process
LoadsFromFile ==
    /\ Started => Processed(loadLog') = Names(config')
    /\ (Started /\ config.kind # "absent") => (config' = config /\ fileOps' = <<>>)
    /\ (phase # "new" /\ phase' = "new") => config' = config

\* the startup wrote config_path with a discovered list: one enabled
\* descriptor per package that has its runtime file, in name order
WroteDiscovered ==
    /\ fileOps' = <<FileOp("config", "examples_dir", config')>>
    /\ Discovered(config')
    /\ \A i \in 1..Len(loadLog') : loadLog'[i].result # "missing"

C26_ReservedPathsNotShadowed ==
    /\ \A i \in 1..Len(routes) : MountPoint(routes[i].path) \notin ReservedPaths
    /\ \A i \in 1..Len(skills) : MountPoint(skills[i].mount_path) \notin ReservedPaths
    /\ phase = "serving" => \A p \in ReservedPaths : Answers(p) = "host"

\* a config file the load can go through: it parses and every item of its
\* skills list is a mapping
Parses(file) ==
    /\ file.kind = "ok"
    /\ \A i \in 1..Len(file.skills) : file.skills[i].isdict

\* C27: the construction of the host raises when the config file it finds
\* is unreadable or malformed, and then nothing serves, ever; a host that
\* serves was built from a config that parsed; and a host that serves goes
\* on serving whatever a later reload finds.
C27_MalformedFatalAtStartup ==
    [][/\ (phase = "new" /\ config.kind # "absent" /\ ~Parses(config))
            => phase' = "crashed"
       /\ (phase = "new" /\ phase' = "serving") => Parses(config')
       /\ phase = "crashed" => phase' = "crashed"
       /\ phase = "serving" => phase' = "serving"]_vars

C27_Witness ==
    /\ phase = "crashed"
    /\ config = MalformedFile
    /\ skills = <<>> /\ routes = <<>>

\* C28: once every /run request that arrived has completed, whether its
\* skill returned or raised and however the requests overlapped, the
\* process environment is what it was before the first of them started.
C28_CredentialsCleanedUp ==
    (\A r \in Requests : runs[r].stage # "inside") => environ = base_env

\* C29: what a request's skill logic reads from the environment is the
\* base environment with that request's own credentials over it: never a
\* value another request injected, and nothing injected for a request that
\* carried no credentials.
C29_CredentialsIsolated ==
    \A r \in Requests :
        runs[r].seen # NotRead
            => runs[r].seen = Inject(base_env, runs[r].credentials)

\* C30: every entry of the published discovery catalog that is not marked
\* unavailable carries the base_url (and with it the endpoints) the service
\* computed from the configured URL of its handler.
C30_EndpointsComputedByCore ==
    skill_catalog.built =>
        \A i \in 1..Len(skill_catalog.skills) :
            skill_catalog.skills[i].status # "unavailable"
                => /\ i <= Len(urls)
                   /\ skill_catalog.skills[i].base_url = urls[i]

\* C31: a load pass leaves sys.path as it found it, whatever became of
\* each load_skill call, and also when a skill's directory was in sys.path
\* before the pass.
C31_SysPathUnchanged ==
    [][sys_path' = sys_path]_vars

\* the entries of a list that are not marked unavailable, in the list's order
RECURSIVE NotUnavailable(_)
NotUnavailable(entries) ==
    IF entries = <<>> THEN <<>>
    ELSE IF Head(entries).status = "unavailable" THEN NotUnavailable(Tail(entries))
    ELSE <<Head(entries)>> \o NotUnavailable(Tail(entries))

C33_ReloadIdempotent ==
    [][(/\ resp.op = "reload" /\ resp.status = 200
        /\ resp'.op = "reload" /\ resp'.status = 200
        /\ config' = config /\ loadLog' = loadLog)
        => /\ DictKeys(skills') = DictKeys(skills)
           /\ routes' = routes]_vars

\* C34: in every state the host serves in, the mount paths under which a
\* request is routed to a handler are the keys of the registry, which
\* /health, / and /skills report.
C34_RegistryMatchesRouter ==
    phase = "serving"
        => /\ Routable = Range(health_check.skills)
           /\ Routable = Range(root.skills)
           /\ Routable = {get_skills.skills[i].mount_path :
                             i \in 1..Len(get_skills.skills)}

\* C35: a pass that ends by publishing a catalog other than the published
\* one started after every pass that has already ended: each pass that
\* started later than it is still in flight.
C35_NoStaleOverFresh ==
    [][\A p \in PassIds :
        (Ended(p) /\ skill_catalog' # skill_catalog)
            => \A j \in (passes[p].id + 1)..started :
                   \E q \in PassIds : passes[q].id = j]_vars

(***************************************************************************)
(* Properties of the memory skill's knowledge graph.                       *)
(***************************************************************************)
\* C36: in every state reached from the empty graph by the six writing
\* operations, each stored relation's from and to are names of stored
\* entities, and no relation is stored twice.
C36_ReferentialIntegrity ==
    /\ \A i \in 1..Len(relations) :
           /\ relations[i].from \in DOMAIN entities
           /\ relations[i].to \in DOMAIN entities
    /\ \A i, j \in 1..Len(relations) : relations[i] = relations[j] => i = j

\* two relations are stored, the second by the create_relations that ran last
C36_Witness ==
    /\ graph_result.op = "create_relations"
    /\ graph_result.count = 1
    /\ Len(relations) = 2

\* C37: a write that succeeds leaves the file equal to the graph in memory,
\* an operation that changes the graph writes, an operation that changes
\* nothing performs no write and leaves the file alone, and an operation
\* whose write fails answers with an error and leaves the graph in memory
\* as it was before.
C37_FileMatchesMemory ==
    [][/\ graph_result'.wrote = "ok" => memory_file' = Dump(entities', relations')
       /\ (entities' # entities \/ relations' # relations)
              => graph_result'.wrote # "none"
       /\ (entities' = entities /\ relations' = relations)
              => graph_result'.wrote = "none" /\ memory_file' = memory_file
       /\ graph_result'.wrote \in {"open_fails", "write_fails"}
              => /\ graph_result'.status = 500
                 /\ entities' = entities
                 /\ relations' = relations]_vars

\* C38: a create_entities call leaves every entity that existed as it was,
\* counts exactly the names it added, and the same call applied to the
\* graph it produced creates nothing and gives that graph again.
C38_CreateNeverOverwrites ==
    [][graph_result'.op = "create_entities"
        => /\ \A n \in DOMAIN entities :
                  n \in DOMAIN entities' /\ entities'[n] = entities[n]
           /\ graph_result'.count = Cardinality(DOMAIN entities' \ DOMAIN entities)
           /\ create_entities(entities', graph_result'.entities, 0)
                  = [entities |-> entities', count |-> 0]]_vars

\* create_entities was given an existing name with other data: it created
\* nothing and the entity is not what the call carried
C38_Witness ==
    /\ graph_result.op = "create_entities"
    /\ graph_result.count = 0
    /\ \E i \in 1..Len(graph_result.entities) :
           LET entity == graph_result.entities[i]
           IN  /\ entity.name \in DOMAIN entities
               /\ entities[entity.name] # NewEntity(entity)

=============================================================================
